---- MODULE Spec2Model ----
(***************************************************************************)
(* A model of fragmenta/mux: the Mux (route list, middleware chain,        *)
(* dispatch with fallback and error hooks) of mux.go and the request       *)
(* parameters (ParamsWithMux, RequestParams and its accessors) of the      *)
(* params file.                                                            *)
(*                                                                         *)
(* Strings whose characters matter (parameter values, path segments) are   *)
(* sequences of one-character strings; keys, methods and handler names are *)
(* only compared and are plain strings.  A request path is the sequence of *)
(* its segments.                                                           *)
(***************************************************************************)
EXTENDS Integers, Sequences, FiniteSets, TLC

\* ------------------------------------------------------------- bounds
MaxRoutes == 2
MaxMiddleware == 2
MaxParamRoutes == 1
MaxLen == 3
MaxVals == 2

\* ------------------------------------------------------------ strings
U == <<"u">>
N == <<"n">>
Five == <<"5">>
Six == <<"6">>
Seven == <<"7">>
Eight == <<"8">>
Blank == <<>>

\* --------------------------------------------------- routes (route.go)
\* A pattern is a sequence of segments: a literal, or a named capture.
Lit(s) == [cap |-> FALSE, name |-> "", lit |-> s]
Cap(n) == [cap |-> TRUE, name |-> n, lit |-> Blank]

PatUsersId == <<Lit(U), Cap("id")>>
PatUsersNew == <<Lit(U), Lit(N)>>
PatDup == <<Cap("id"), Cap("id")>>
Patterns == {PatUsersId, PatUsersNew, PatDup}

Paths == {<<U, N>>, <<U, Five>>}
Handlers == {"h1", "h2"}
FileHandler == "fileHandler"
DefaultMethods == {"GET", "HEAD"}
ReqMethods == {"GET", "POST"}

\* Compile fails on a duplicate capture name or a capture without a name.
CompileError(pattern) ==
    \/ \E i, j \in 1..Len(pattern) :
          i < j /\ pattern[i].cap /\ pattern[j].cap /\ pattern[i].name = pattern[j].name
    \/ \E i \in 1..Len(pattern) : pattern[i].cap /\ pattern[i].name = ""

\* The nil Route (an interface value holding nothing): calling a method on it panics.
NilRoute == [isNil |-> TRUE, ok |-> FALSE, segs |-> <<>>, methods |-> {}, handler |-> ""]

\* NewRoute returns the route and whether compiling failed; a failed route is
\* a non-nil route that matches nothing.
NewRoute(pattern, handler) ==
    IF CompileError(pattern)
    THEN [route |-> [isNil |-> FALSE, ok |-> FALSE, segs |-> <<>>,
                     methods |-> DefaultMethods, handler |-> handler],
          err |-> TRUE]
    ELSE [route |-> [isNil |-> FALSE, ok |-> TRUE, segs |-> pattern,
                     methods |-> DefaultMethods, handler |-> handler],
          err |-> FALSE]

\* The cheap pre-filter: the segment counts agree.
MatchMaybe(route, path) == route.ok /\ Len(route.segs) = Len(path)

MatchMethod(route, method) == method \in route.methods

\* The authoritative match, segment by segment.
RouteMatch(route, path) ==
    /\ route.ok
    /\ Len(route.segs) = Len(path)
    /\ \A i \in 1..Len(path) :
          IF route.segs[i].cap THEN path[i] # Blank ELSE path[i] = route.segs[i].lit

\* Parse: the captures of a matching path, name -> value; empty when it does not match.
Parse(route, path) ==
    IF ~RouteMatch(route, path) THEN <<>>
    ELSE [k \in {route.segs[i].name : i \in {j \in 1..Len(path) : route.segs[j].cap}} |->
            path[CHOOSE i \in 1..Len(path) : route.segs[i].cap /\ route.segs[i].name = k]]

\* Route.Post: restricts the route to POST.
RoutePost(route) == [route EXCEPT !.methods = {"POST"}]

\* ------------------------------------------------------ requests
NoBody == [present |-> FALSE, ctype |-> "", fields |-> <<>>, malformed |-> FALSE]
Body(ctype, fields, malformed) ==
    [present |-> TRUE, ctype |-> ctype, fields |-> fields, malformed |-> malformed]
Request(method, path, query, body) ==
    [isNil |-> FALSE, method |-> method, path |-> path, query |-> query, body |-> body]
NilRequest == [isNil |-> TRUE, method |-> "", path |-> <<>>, query |-> <<>>, body |-> NoBody]

\* The requests the server hands to ServeHTTP.
ServeRequests == {Request(m, p, <<>>, NoBody) : m \in ReqMethods, p \in Paths} \cup {NilRequest}

\* ------------------------------------------------------ Mux (mux.go)
MuxIds == {"m1", "m2"}
Served == "m1"
NilMux == "nilmux"
NoErr == "nil"
Errors == {"e1", "e2"}
Middlewares == {"A", "B"}
Panic == 0 - 1

VARIABLES
    routes,        \* Mux.routes of each Mux
    handlerFuncs,  \* Mux.handlerFuncs of each Mux
    mux,           \* the package-level default mux: a Mux, or NilMux
    regOrder,      \* history: the middleware of each Mux in AddMiddleware call order
    addLog,        \* history: for each Add on a Mux, whether NewRoute failed
    phase,         \* where ServeHTTP is: idle, pre, route, post, done, crashed
    req,           \* the request being served
    h,             \* the handler ServeHTTP composed: its middleware, outermost first
    depth,         \* how many middleware of h have been entered and not left
    log,           \* the pre / dispatch / post events of this request, in order
    dispatch,      \* what RouteRequest did for this request
    pcall,         \* the last call of ParamsWithMux: its arguments and result
    Values,        \* RequestParams.Values of the parameter set under test
    out            \* the last accessor call on it: op, key, result

vars == <<routes, handlerFuncs, mux, regOrder, addLog, phase, req, h, depth, log,
          dispatch, pcall, Values, out>>

muxVars == <<routes, handlerFuncs, mux, regOrder, addLog>>
serveVars == <<phase, req, h, depth, log, dispatch>>
paramVars == <<pcall, Values, out>>

NoCall == [called |-> FALSE, m |-> "", r |-> NilRequest, status |-> "", route |-> 0,
           values |-> <<>>]
NoOut == [op |-> "", key |-> "", panicked |-> FALSE, str |-> Blank, num |-> 0, flat |-> <<>>]

\* Mux.Match: the first route, in order, that passes the three tests; 0 is nil.
RECURSIVE MatchFrom(_, _, _)
MatchFrom(rs, r, i) ==
    IF i > Len(rs) THEN 0
    ELSE IF rs[i].isNil THEN Panic
    ELSE IF MatchMaybe(rs[i], r.path) /\ MatchMethod(rs[i], r.method) /\ RouteMatch(rs[i], r.path)
         THEN i
         ELSE MatchFrom(rs, r, i + 1)

RECURSIVE MatchLatestFrom(_, _, _)
MatchLatestFrom(rs, r, i) ==
    IF i < 1 THEN 0
    ELSE IF MatchMaybe(rs[i], r.path) /\ MatchMethod(rs[i], r.method) /\ RouteMatch(rs[i], r.path)
         THEN i
         ELSE MatchLatestFrom(rs, r, i - 1)

\* Mutation: the scan runs from the most recently added route.
MatchLatest(rs, r) == IF r.isNil THEN 0 ELSE MatchLatestFrom(rs, r, Len(rs))

Match(rs, r) == IF r.isNil THEN 0 ELSE MatchFrom(rs, r, 1)

NoDispatch == [ran |-> FALSE, ret |-> NoErr, crashed |-> FALSE, route |-> 0,
               invoked |-> <<>>, errs |-> <<>>]

\* What RouteRequest did: the route Match gave it (0: nil), the handlers it
\* invoked in order, and the errors it passed to ErrorHandler in order.
Ran(ret, route, invoked, errs) ==
    [ran |-> TRUE, ret |-> ret, crashed |-> FALSE, route |-> route,
     invoked |-> invoked, errs |-> errs]
Crashed == [ran |-> TRUE, ret |-> NoErr, crashed |-> TRUE, route |-> Panic,
            invoked |-> <<>>, errs |-> <<>>]

\* Mutation: an error of the fallback handler is dropped.
RouteRequestDropFileError(rs, r, ret) ==
    LET route == Match(rs, r) IN
    IF route = 0
    THEN Ran(ret, 0, <<FileHandler>>, <<>>)
    ELSE Ran(ret, route, <<rs[route].handler>>, IF ret # NoErr THEN <<ret>> ELSE <<>>)

\* Mutation: the static file handler is tried before every route handler.
RouteRequestFileFirst(rs, r, ret) ==
    LET route == Match(rs, r) IN
    IF route = 0
    THEN Ran(ret, 0, <<FileHandler>>, IF ret # NoErr THEN <<ret>> ELSE <<>>)
    ELSE Ran(ret, route, <<FileHandler, rs[route].handler>>,
             IF ret # NoErr THEN <<ret>> ELSE <<>>)

\* Mux.RouteRequest, with ret the value the handler it runs returns.
RouteRequest(rs, r, ret) ==
    LET route == Match(rs, r) IN
    IF route = Panic THEN Crashed
    ELSE IF route = 0
    THEN Ran(ret, 0, <<FileHandler>>, IF ret # NoErr THEN <<ret>> ELSE <<>>)
    ELSE Ran(ret, route, <<rs[route].handler>>, IF ret # NoErr THEN <<ret>> ELSE <<>>)

\* Mutation: the new middleware is appended.
AppendMiddleware(fs, middleware) == Append(fs, middleware)

\* The assignment of Mux.AddMiddleware: the new middleware goes in front.
PrependMiddleware(fs, middleware) == <<middleware>> \o fs

\* The loop of ServeHTTP: h = mh(h) for each mh in order, from h = RouteRequest.
\* A handler is the sequence of the middleware wrapped around RouteRequest,
\* outermost first, so mh(h) is <<mh>> \o h.
RECURSIVE Compose(_, _)
Compose(fs, acc) == IF fs = <<>> THEN acc ELSE Compose(Tail(fs), <<Head(fs)>> \o acc)

\* Mutation: a failed route is not added.
AppendRouteUnlessError(rs, new) == IF new.err THEN rs ELSE Append(rs, new.route)

\* The append of Mux.Add: the route NewRoute returned, whether or not it failed.
AppendRoute(rs, new) == Append(rs, new.route)

\* ------------------------------------------- RequestParams (params)
\* url.Values: a function from the keys present to their lists of values.
Keys == {"id", "q"}

\* RequestParams.Set
SetValues(vals, key, values) ==
    [k \in DOMAIN vals \cup {key} |-> IF k = key THEN values ELSE vals[k]]

\* Mutation: Add replaces what the key held.
AddValuesReplacing(vals, key, values) ==
    [k \in DOMAIN vals \cup {key} |-> IF k = key THEN values ELSE vals[k]]

\* RequestParams.Add: append(p.Values[key], values...)
AddValues(vals, key, values) ==
    [k \in DOMAIN vals \cup {key} |->
        IF k = key
        THEN (IF key \in DOMAIN vals THEN vals[key] ELSE <<>>) \o values
        ELSE vals[k]]

\* RequestParams.Delete
DeleteValues(vals, key) == [k \in DOMAIN vals \ {key} |-> vals[k]]

\* An accessor's return: it panicked (an index out of range), or its value.
Returned(str, num, flat) == [panicked |-> FALSE, str |-> str, num |-> num, flat |-> flat]
Panicked == [panicked |-> TRUE, str |-> Blank, num |-> 0, flat |-> <<>>]

\* RequestParams.Get: v[0] of a key that is present.
Get(vals, key) ==
    IF key \notin DOMAIN vals THEN Returned(Blank, 0, <<>>)
    ELSE IF vals[key] = <<>> THEN Panicked
    ELSE Returned(vals[key][1], 0, <<>>)

\* RequestParams.Map: flat[k] = v[0] for every key present.
Map(vals) ==
    IF \E k \in DOMAIN vals : vals[k] = <<>> THEN Panicked
    ELSE Returned(Blank, 0, [k \in DOMAIN vals |-> vals[k][1]])

Digits == {"0", "1", "2", "3", "4", "5", "6", "7", "8", "9"}
DigitVal(c) ==
    CASE c = "0" -> 0 [] c = "1" -> 1 [] c = "2" -> 2 [] c = "3" -> 3 [] c = "4" -> 4
      [] c = "5" -> 5 [] c = "6" -> 6 [] c = "7" -> 7 [] c = "8" -> 8 [] c = "9" -> 9

RECURSIVE Decimal(_)
Decimal(ds) ==
    IF ds = <<>> THEN 0 ELSE 10 * Decimal(SubSeq(ds, 1, Len(ds) - 1)) + DigitVal(ds[Len(ds)])

\* strconv.ParseInt(s, 10, 64): an optional sign, then one or more digits.  The
\* range error of 64 bits needs 19 digits, more than any string here holds.
ParseInt(s) ==
    LET signed == s # <<>> /\ s[1] \in {"+", "-"}
        ds == IF signed THEN Tail(s) ELSE s
        neg == signed /\ s[1] = "-"
    IN  IF ds = <<>> \/ \E i \in 1..Len(ds) : ds[i] \notin Digits
        THEN [err |-> TRUE, val |-> 0]
        ELSE [err |-> FALSE, val |-> IF neg THEN 0 - Decimal(ds) ELSE Decimal(ds)]

\* strconv.ParseFloat(s, 64) on the strings of this model, which hold no '.',
\* exponent, or the letters of inf, nan and hex floats: the decimal integers.
ParseFloat(s) ==
    LET signed == s # <<>> /\ s[1] \in {"+", "-"}
        ds == IF signed THEN Tail(s) ELSE s
    IN  IF ds = <<>> \/ \E i \in 1..Len(ds) : ds[i] \notin Digits
        THEN [err |-> TRUE, val |-> 0]
        ELSE [err |-> FALSE, val |-> IF s[1] = "-" THEN 0 - Decimal(ds) ELSE Decimal(ds)]

\* strings.LastIndexAny(v, "0123456789") + 1: the length up to the last digit.
LastDigitEnd(v) ==
    IF \E i \in 1..Len(v) : v[i] \in Digits
    THEN CHOOSE i \in 1..Len(v) : v[i] \in Digits /\ \A j \in (i + 1)..Len(v) : v[j] \notin Digits
    ELSE 0

\* RequestParams.GetInt
GetInt(vals, key) ==
    LET got == Get(vals, key) IN
    IF got.panicked THEN Panicked
    ELSE LET v == SubSeq(got.str, 1, LastDigitEnd(got.str))
             parsed == ParseInt(v)
         IN  Returned(Blank, IF parsed.err THEN 0 ELSE parsed.val, <<>>)

\* RequestParams.GetFloat
GetFloat(vals, key) ==
    LET got == Get(vals, key) IN
    IF got.panicked THEN Panicked
    ELSE LET parsed == ParseFloat(got.str)
         IN  Returned(Blank, IF parsed.err THEN 0 ELSE parsed.val, <<>>)

\* ------------------------------------------- ParamsWithMux (params)
\* A query string or a form body is its key=value pairs in order.
RECURSIVE PairValues(_, _)
PairValues(pairs, k) ==
    IF pairs = <<>> THEN <<>>
    ELSE (IF Head(pairs)[1] = k THEN <<Head(pairs)[2]>> ELSE <<>>) \o PairValues(Tail(pairs), k)

\* url.ParseQuery: each key with its values in their original order.
ParseQuery(pairs) ==
    [k \in {pairs[i][1] : i \in 1..Len(pairs)} |-> PairValues(pairs, k)]

\* Request.ParseForm: PostForm is the body of a POST, PUT or PATCH; Form is
\* PostForm with the values of the URL query appended to each key.
ParseForm(r) ==
    LET postForm == IF r.method \in {"POST", "PUT", "PATCH"}
                    THEN ParseQuery(r.body.fields) ELSE <<>>
        query == ParseQuery(r.query)
    IN  [err |-> r.method \in {"POST", "PUT", "PATCH"} /\ r.body.malformed,
         form |-> [k \in DOMAIN postForm \cup DOMAIN query |->
                     (IF k \in DOMAIN postForm THEN postForm[k] ELSE <<>>)
                        \o (IF k \in DOMAIN query THEN query[k] ELSE <<>>)]]

\* for k, v := range urlParams { params.Set(k, []string{v}) }
RECURSIVE SetEach(_, _, _)
SetEach(vals, m, keys) ==
    IF keys = {} THEN vals
    ELSE LET k == CHOOSE x \in keys : TRUE
         IN  SetEach(SetValues(vals, k, <<m[k]>>), m, keys \ {k})

\* for k, v := range m { params.Add(k, v) }
RECURSIVE AddEach(_, _, _)
AddEach(vals, m, keys) ==
    IF keys = {} THEN vals
    ELSE LET k == CHOOSE x \in keys : TRUE
         IN  AddEach(AddValues(vals, k, m[k]), m, keys \ {k})

ParamsResult(status, route, values) == [status |-> status, route |-> route, values |-> values]

\* The body of ParamsWithMux, with rs the routes of the Mux whose Match it calls.
ParamsFor(rs, r) ==
    LET route == Match(rs, r) IN
    IF route = Panic THEN ParamsResult("panic", 0, <<>>)
    ELSE IF route = 0 THEN ParamsResult("error", 0, <<>>)
    ELSE
      LET urlParams == Parse(rs[route], r.path)
          queryParams == ParseQuery(r.query)
          params == AddEach(SetEach(<<>>, urlParams, DOMAIN urlParams),
                            queryParams, DOMAIN queryParams)
      IN  IF ~r.body.present THEN ParamsResult("ok", route, params)
          ELSE IF r.body.ctype = "application/x-www-form-urlencoded"
          THEN LET parsed == ParseForm(r) IN
               IF parsed.err THEN ParamsResult("error", route, <<>>)
               ELSE ParamsResult("ok", route, AddEach(params, parsed.form, DOMAIN parsed.form))
          ELSE IF r.body.ctype = "multipart/form-data"
          THEN IF r.body.malformed THEN ParamsResult("error", route, <<>>)
               ELSE LET value == ParseQuery(r.body.fields) IN
                    ParamsResult("ok", route, AddEach(params, value, DOMAIN value))
          ELSE ParamsResult("ok", route, params)

\* ParamsWithMux(m, r): the route comes from mux.Match(r), the package-level
\* mux; Match on a nil *Mux returns nil for a nil request and otherwise
\* dereferences the nil pointer.
ParamsWithMux(m, r) ==
    IF mux = NilMux
    THEN (IF r.isNil THEN ParamsResult("error", 0, <<>>) ELSE ParamsResult("panic", 0, <<>>))
    ELSE ParamsFor(routes[mux], r)

\* ------------------------------------------------------ setup actions
\* New: no routes, no middleware.  The parameter set starts empty.
Init ==
    /\ routes = [m \in MuxIds |-> <<>>]
    /\ handlerFuncs = [m \in MuxIds |-> <<>>]
    /\ mux = NilMux
    /\ regOrder = [m \in MuxIds |-> <<>>]
    /\ addLog = [m \in MuxIds |-> <<>>]
    /\ phase = "idle"
    /\ req = NilRequest
    /\ h = <<>>
    /\ depth = 0
    /\ log = <<>>
    /\ dispatch = NoDispatch
    /\ pcall = NoCall
    /\ Values = <<>>
    /\ out = NoOut

\* Mux.Add
Add(m, pattern, handler) ==
    /\ phase = "idle"
    /\ routes' = [routes EXCEPT ![m] = AppendRoute(@, NewRoute(pattern, handler))]
    /\ addLog' = [addLog EXCEPT ![m] = Append(@, NewRoute(pattern, handler).err)]
    /\ UNCHANGED <<handlerFuncs, mux, regOrder, serveVars, paramVars>>

\* m.Add(pattern, handler).Post(): the method restriction chained on the route just added.
Post(m) ==
    /\ phase = "idle"
    /\ routes[m] # <<>>
    /\ LET n == Len(routes[m]) IN
          /\ ~routes[m][n].isNil
          /\ routes[m][n].methods = DefaultMethods
          /\ routes' = [routes EXCEPT ![m] = [@ EXCEPT ![n] = RoutePost(@)]]
    /\ UNCHANGED <<handlerFuncs, mux, regOrder, addLog, serveVars, paramVars>>

\* Mux.AddMiddleware
AddMiddleware(m, middleware) ==
    /\ phase = "idle"
    /\ handlerFuncs' = [handlerFuncs EXCEPT ![m] = PrependMiddleware(@, middleware)]
    /\ regOrder' = [regOrder EXCEPT ![m] = Append(@, middleware)]
    /\ UNCHANGED <<routes, mux, addLog, serveVars, paramVars>>

\* ------------------------------------------------------ serving
\* Mux.ServeHTTP composes the handler and calls it.
ServeHTTP(r) ==
    /\ phase = "idle"
    /\ req' = r
    /\ h' = Compose(handlerFuncs[Served], <<>>)
    /\ depth' = 0
    /\ log' = <<>>
    /\ dispatch' = NoDispatch
    /\ phase' = IF handlerFuncs[Served] = <<>> THEN "route" ELSE "pre"
    /\ UNCHANGED <<muxVars, paramVars>>

\* A middleware of h does its work before calling the handler it wraps.
MiddlewarePre ==
    /\ phase = "pre"
    /\ depth' = depth + 1
    /\ log' = Append(log, [ev |-> "pre", mw |-> h[depth + 1]])
    /\ phase' = IF depth + 1 = Len(h) THEN "route" ELSE "pre"
    /\ UNCHANGED <<muxVars, req, h, dispatch, paramVars>>

\* The innermost handler: RouteRequest runs a handler, which returns ret.
Dispatch(ret) ==
    /\ phase = "route"
    /\ dispatch' = RouteRequest(routes[Served], req, ret)
    /\ log' = Append(log, [ev |-> "dispatch", mw |-> ""])
    /\ phase' = IF dispatch'.crashed THEN "crashed" ELSE IF depth = 0 THEN "done" ELSE "post"
    /\ UNCHANGED <<muxVars, req, h, depth, paramVars>>

\* The wrapped handler returned: the middleware does its work after it.
MiddlewarePost ==
    /\ phase = "post"
    /\ log' = Append(log, [ev |-> "post", mw |-> h[depth]])
    /\ depth' = depth - 1
    /\ phase' = IF depth = 1 THEN "done" ELSE "post"
    /\ UNCHANGED <<muxVars, req, h, dispatch, paramVars>>

\* ServeHTTP returned; the server takes the next request.
Finish ==
    /\ phase = "done"
    /\ phase' = "idle"
    /\ req' = NilRequest
    /\ h' = <<>>
    /\ depth' = 0
    /\ log' = <<>>
    /\ dispatch' = NoDispatch
    /\ UNCHANGED <<muxVars, paramVars>>

Next ==
    \/ \E p \in Patterns, hd \in Handlers :
          Len(routes[Served]) < MaxRoutes /\ Add(Served, p, hd)
    \/ Post(Served)
    \/ \E mw \in Middlewares :
          Len(handlerFuncs[Served]) < MaxMiddleware /\ AddMiddleware(Served, mw)
    \/ \E r \in ServeRequests : ServeHTTP(r)
    \/ MiddlewarePre
    \/ \E ret \in Errors \cup {NoErr} : Dispatch(ret)
    \/ MiddlewarePost
    \/ Finish

Spec == Init /\ [][Next]_vars

\* ------------------------------------------------------ parameters
\* SetDefault: the package-level mux is set once.
SetDefault(m) ==
    /\ phase = "idle"
    /\ mux' = IF mux = NilMux THEN m ELSE mux
    /\ UNCHANGED <<routes, handlerFuncs, regOrder, addLog, serveVars, paramVars>>

Queries == {<<>>, <<<<"id", Six>>>>, <<<<"id", Six>>, <<"q", Seven>>, <<"id", Seven>>>>}
Bodies ==
    {NoBody,
     Body("application/x-www-form-urlencoded", <<<<"id", Eight>>>>, FALSE),
     Body("application/x-www-form-urlencoded", <<>>, TRUE),
     Body("multipart/form-data", <<<<"id", Eight>>>>, FALSE),
     Body("application/json", <<<<"id", Eight>>>>, FALSE)}
ParamRequests ==
    {Request(m, p, q, b) : m \in ReqMethods, p \in {<<U, Five>>, <<U>>},
                           q \in Queries, b \in Bodies} \cup {NilRequest}

\* A handler calls ParamsWithMux(m, r).
CallParamsWithMux(m, r) ==
    /\ phase = "idle"
    /\ ~pcall.called
    /\ LET got == ParamsWithMux(m, r) IN
          pcall' = [called |-> TRUE, m |-> m, r |-> r, status |-> got.status,
                    route |-> got.route, values |-> got.values]
    /\ UNCHANGED <<muxVars, serveVars, Values, out>>

\* The handler is done with the parameters.
ParamsReturn ==
    /\ pcall.called
    /\ pcall' = NoCall
    /\ UNCHANGED <<muxVars, serveVars, Values, out>>

ParamsNext ==
    \/ \E m \in MuxIds, p \in {PatUsersId, PatUsersNew} :
          ~pcall.called /\ Len(routes[m]) < MaxParamRoutes /\ Add(m, p, "h1")
    \/ \E m \in MuxIds : ~pcall.called /\ Post(m)
    \/ \E m \in MuxIds : ~pcall.called /\ SetDefault(m)
    \/ \E m \in MuxIds, r \in ParamRequests : CallParamsWithMux(m, r)
    \/ ParamsReturn

SpecParams == Init /\ [][ParamsNext]_vars

\* ------------------------------------------------------ accessors
SampleValues == {Blank, <<"4", "2">>, <<"a">>}
RECURSIVE SeqsUpTo(_, _)
SeqsUpTo(S, n) ==
    IF n = 0 THEN {<<>>}
    ELSE LET shorter == SeqsUpTo(S, n - 1)
         IN  shorter \cup {Append(t, x) : t \in shorter, x \in S}

Record(op, key, ret) ==
    [op |-> op, key |-> key, panicked |-> ret.panicked, str |-> ret.str, num |-> ret.num,
     flat |-> ret.flat]

RequestParamsSet(key, values) ==
    /\ Values' = SetValues(Values, key, values)
    /\ out' = NoOut
    /\ UNCHANGED <<muxVars, serveVars, pcall>>

RequestParamsAdd(key, values) ==
    /\ Values' = AddValues(Values, key, values)
    /\ Len(Values'[key]) <= MaxVals
    /\ out' = NoOut
    /\ UNCHANGED <<muxVars, serveVars, pcall>>

RequestParamsDelete(key) ==
    /\ Values' = DeleteValues(Values, key)
    /\ out' = NoOut
    /\ UNCHANGED <<muxVars, serveVars, pcall>>

CallGet(key) ==
    /\ out' = Record("Get", key, Get(Values, key))
    /\ UNCHANGED <<muxVars, serveVars, pcall, Values>>

CallGetInt(key) ==
    /\ out' = Record("GetInt", key, GetInt(Values, key))
    /\ UNCHANGED <<muxVars, serveVars, pcall, Values>>

CallGetFloat(key) ==
    /\ out' = Record("GetFloat", key, GetFloat(Values, key))
    /\ UNCHANGED <<muxVars, serveVars, pcall, Values>>

CallMap ==
    /\ out' = Record("Map", "", Map(Values))
    /\ UNCHANGED <<muxVars, serveVars, pcall, Values>>

AccessNext ==
    \/ \E k \in Keys, vs \in SeqsUpTo(SampleValues, MaxVals) : RequestParamsSet(k, vs)
    \/ \E k \in Keys, vs \in SeqsUpTo(SampleValues, MaxVals) : RequestParamsAdd(k, vs)
    \/ \E k \in Keys : RequestParamsDelete(k)
    \/ \E k \in Keys : CallGet(k)
    \/ \E k \in Keys : CallGetInt(k)
    \/ \E k \in Keys : CallGetFloat(k)
    \/ CallMap

SpecAccess == Init /\ [][AccessNext]_vars

\* GetInt as a function of the first value of a key: every string of up to
\* MaxLen characters, or no entry.
Alphabet == {"1", "2", "a", "-"}
InitGetInt ==
    /\ routes = [m \in MuxIds |-> <<>>]
    /\ handlerFuncs = [m \in MuxIds |-> <<>>]
    /\ mux = NilMux
    /\ regOrder = [m \in MuxIds |-> <<>>]
    /\ addLog = [m \in MuxIds |-> <<>>]
    /\ phase = "idle"
    /\ req = NilRequest
    /\ h = <<>>
    /\ depth = 0
    /\ log = <<>>
    /\ dispatch = NoDispatch
    /\ pcall = NoCall
    /\ Values \in {<<>>} \cup {SetValues(<<>>, "id", <<s>>) : s \in SeqsUpTo(Alphabet, MaxLen)}
    /\ out = NoOut

GetIntNext == out = NoOut /\ CallGetInt("id")

SpecGetInt == InitGetInt /\ [][GetIntNext]_vars

\* ------------------------------------------------------ properties
Reverse(s) == [i \in 1..Len(s) |-> s[Len(s) + 1 - i]]
IsPrefix(s, t) == Len(s) <= Len(t) /\ \A i \in 1..Len(s) : s[i] = t[i]
Events(ev, mws) == [i \in 1..Len(mws) |-> [ev |-> ev, mw |-> mws[i]]]

\* What a request observes when the middleware wrap the dispatch endpoint
\* with outerFirst[1] outermost.
WrapTrace(outerFirst) ==
    Events("pre", outerFirst) \o <<[ev |-> "dispatch", mw |-> ""]>>
        \o Events("post", Reverse(outerFirst))

\* C1 as stated: the most recently added middleware is the outermost wrapper:
\* a served request saw the pre-processing from the last added to the first
\* added, the dispatch, then the post-processing from the first to the last.
C1_LastAddedOutermost ==
    phase = "done" => log = WrapTrace(Reverse(regOrder[Served]))

\* C1 amended: the middleware added first is the outermost wrapper: every
\* request sees the pre-processing in registration order, then the dispatch
\* endpoint, then the post-processing in reverse registration order.
C1_FirstAddedOutermost ==
    /\ phase \in {"pre", "route", "post", "done"} =>
          IsPrefix(log, WrapTrace(regOrder[Served]))
    /\ phase = "done" => log = WrapTrace(regOrder[Served])

C1_Witness ==
    /\ phase = "done"
    /\ Len(regOrder[Served]) >= 2
    /\ regOrder[Served][1] # regOrder[Served][2]

\* The routes of rs that pass all three tests for request r.
Satisfying(rs, r) ==
    {i \in 1..Len(rs) :
        /\ ~r.isNil
        /\ MatchMaybe(rs[i], r.path)
        /\ MatchMethod(rs[i], r.method)
        /\ RouteMatch(rs[i], r.path)}

\* C2: the route Match selects is the earliest registered route that passes
\* MatchMaybe, MatchMethod and Match, and it is nil exactly when no route
\* passes all three (or the request is nil).
C2_EarliestRouteSelected ==
    dispatch.ran =>
        LET sat == Satisfying(routes[Served], req) IN
        /\ dispatch.route = 0 <=> sat = {}
        /\ sat # {} => dispatch.route \in sat /\ \A j \in sat : dispatch.route <= j

C2_Witness ==
    /\ dispatch.ran
    /\ Cardinality(Satisfying(routes[Served], req)) >= 2

\* C3: RouteRequest invokes exactly one handler, once: the selected route's
\* handler when a route matches, the FileHandler exactly when none does.
C3_ExactlyOneHandler ==
    dispatch.ran =>
        LET route == Match(routes[Served], req) IN
        /\ Len(dispatch.invoked) = 1
        /\ route = 0 <=> dispatch.invoked[1] = FileHandler
        /\ route > 0 => dispatch.invoked[1] = routes[Served][route].handler

C3_Witness ==
    /\ dispatch.ran
    /\ dispatch.route > 0
    /\ Len(routes[Served]) = 2
    /\ routes[Served][1].handler # routes[Served][2].handler

\* C4: the ErrorHandler is invoked at most once, exactly when the handler
\* that ran returned an error, and with that error; a fallback that returns
\* nil never invokes it.
C4_ErrorHandlerOnce ==
    dispatch.ran =>
        /\ Len(dispatch.errs) <= 1
        /\ dispatch.errs # <<>> <=> dispatch.ret # NoErr
        /\ dispatch.errs # <<>> => dispatch.errs[1] = dispatch.ret
        /\ (dispatch.route = 0 /\ dispatch.ret = NoErr) => dispatch.errs = <<>>

C4_Witness ==
    /\ dispatch.ran
    /\ dispatch.route = 0
    /\ dispatch.errs = <<"e2">>

ValuesAt(vals, k) == IF k \in DOMAIN vals THEN vals[k] ELSE <<>>

\* The path parameter of the route ParamsWithMux matched, as a list.
PathValues(call, k) ==
    LET urlParams == Parse(routes[mux][call.route], call.r.path)
    IN  IF k \in DOMAIN urlParams THEN <<urlParams[k]>> ELSE <<>>

BodyParsed(r) ==
    /\ r.body.present
    /\ r.body.ctype \in {"application/x-www-form-urlencoded", "multipart/form-data"}

\* C6: when the body is not parsed, the values of every key are the path
\* parameter of the matched route (if it captures the key) followed by the
\* query-string values in their order, and Get returns the path value.
C6_PathThenQuery ==
    (pcall.called /\ pcall.status = "ok" /\ ~BodyParsed(pcall.r)) =>
        /\ \A k \in Keys :
              /\ ValuesAt(pcall.values, k) = PathValues(pcall, k) \o PairValues(pcall.r.query, k)
              /\ PathValues(pcall, k) # <<>> =>
                    Get(pcall.values, k) = Returned(PathValues(pcall, k)[1], 0, <<>>)
        /\ DOMAIN pcall.values \subseteq Keys

C6_Witness ==
    /\ pcall.called
    /\ pcall.status = "ok"
    /\ ~BodyParsed(pcall.r)
    /\ ValuesAt(pcall.values, "id") = <<Five, Six, Seven>>

\* The first value of a key, blank when the key has no entry or no value.
FirstValue(vals, key) ==
    IF key \in DOMAIN vals /\ vals[key] # <<>> THEN vals[key][1] ELSE Blank

\* The digits of v before its first non-numeric character.
LeadingDigits(v) ==
    SubSeq(v, 1, CHOOSE n \in 0..Len(v) :
                    /\ \A i \in 1..n : v[i] \in Digits
                    /\ n < Len(v) => v[n + 1] \notin Digits)

\* C7: GetInt returns the first value truncated at its first non-numeric
\* character and parsed, 0 when the key is missing or nothing parses.  Stated
\* for the values that hold no sign character, where "numeric" is not in doubt.
C7_GetIntLeadingDigits ==
    (/\ out.op = "GetInt"
     /\ \A i \in 1..Len(FirstValue(Values, out.key)) :
           FirstValue(Values, out.key)[i] \notin {"+", "-"}) =>
        /\ ~out.panicked
        /\ out.num = Decimal(LeadingDigits(FirstValue(Values, out.key)))

\* C8: after any Set, Add and Delete calls, Get, GetInt, GetFloat and Map
\* return without panicking, and a key that has no value gives the blank
\* string from Get and zero from GetInt and GetFloat.
C8_AccessorsNeverPanic ==
    out.op \in {"Get", "GetInt", "GetFloat", "Map"} =>
        /\ ~out.panicked
        /\ (out.op # "Map" /\ ValuesAt(Values, out.key) = <<>>) =>
              out.str = Blank /\ out.num = 0

\* C9: the result of ParamsWithMux(m, r) is what the routes of m give for r,
\* whatever the package-level default mux is.
C9_UsesGivenMux ==
    pcall.called =>
        ParamsResult(pcall.status, pcall.route, pcall.values)
            = ParamsFor(routes[pcall.m], pcall.r)

\* C10: for a form-encoded body, the values of every key are the path value,
\* then the query-string values, then the body field values, each once.
C10_EachSourceOnce ==
    (/\ pcall.called
     /\ pcall.status = "ok"
     /\ pcall.r.body.present
     /\ pcall.r.body.ctype = "application/x-www-form-urlencoded"
     /\ pcall.r.method = "POST") =>
        \A k \in Keys :
            ValuesAt(pcall.values, k) =
                PathValues(pcall, k) \o PairValues(pcall.r.query, k)
                    \o PairValues(pcall.r.body.fields, k)

====
